---- MODULE Spec2Model ----
(***************************************************************************)
(* Model of the real-time detection streaming client of                    *)
(* src/myApp1/components/ui/dashboard.tsx (component Dashboard).           *)
(*                                                                         *)
(* The program state is the set of React refs and published React state of *)
(* the component, plus one record per live invocation of the async closure *)
(* `loop` of startRealtimeLoop ("chain").  A chain is suspended either on  *)
(* its iteration timer, on takePictureAsync, on fetch, on response.json()  *)
(* or on the reconnect delay.  JavaScript runs every handler to its next   *)
(* await atomically, so every action below is one such run.                *)
(*                                                                         *)
(* Strings are sequences of one-character strings so that includes(),      *)
(* join() and string equality are computed, not assumed.                   *)
(* Time is measured in milliseconds and advances in steps of TickMs.       *)
(*                                                                         *)
(* Spec is the component under all interleavings of its handlers.          *)
(* SpecReconcile and SpecAlerts apply updateDetections and handleAlerts to *)
(* bounded sets of inputs.                                                 *)
(***************************************************************************)
EXTENDS Integers, Sequences, FiniteSets, TLC

VARIABLES
  mountedRef,            \* mountedRef.current
  cameraRef,             \* cameraRef.current is non-null
  runningRef,            \* runningRef.current
  processingRef,         \* processingRef.current
  retryCountRef,         \* retryCountRef.current
  frameLoopTimeoutRef,   \* frameLoopTimeoutRef.current: 0 = null, c = timer of chain c
  lastAlertTextRef,      \* lastAlertTextRef.current
  sinceSpeech,           \* Date.now() - lastSpeechTimeRef.current, saturated
  hasStartedRef,         \* hasStartedRef.current
  isRunning,             \* useState isRunning
  alertText,             \* useState alertText
  connectionStatus,      \* useState connectionStatus
  detections,            \* useState detections
  serverW,               \* useState serverW
  serverH,               \* useState serverH
  chains,                \* live invocations of loop(): pc and pending timer
  sinceFailure,          \* ms since a counted failure below the limit was handled, saturated
  terminalNotes,         \* Alert.alert calls since the last startDetection
  haltedByLimit,         \* the retry limit stopped the loop and no start came since
  elapsed,               \* per chain: Date.now() - startTime of its iteration, saturated
  sent,                  \* per chain: ms since its fetch was issued, saturated
  mutedSinceSpeech,      \* an explicit alert was refused by the cooldown since the last utterance
  arg,                   \* the input handled by the last step
  fx,                    \* side effects issued by the last step
  op                     \* the last step: <<name, chain>>

vars == <<mountedRef, cameraRef, runningRef, processingRef, retryCountRef,
          frameLoopTimeoutRef, lastAlertTextRef, sinceSpeech, hasStartedRef,
          isRunning, alertText, connectionStatus, detections, serverW, serverH,
          chains, sinceFailure, terminalNotes, haltedByLimit, elapsed, sent,
          mutedSinceSpeech, arg, fx, op>>

----------------------------------------------------------------------------
(* Bounds of the model *)

MaxChains == 2
TickMs == 1000
MaxDets == 2
MaxObjects == 3

(* CONFIG *)

FRAME_RATE == 10
REQUEST_TIMEOUT == 5000
RECONNECT_DELAY == 1000
MAX_RETRY_ATTEMPTS == 5
SPEECH_COOLDOWN == 3000

ChainIds == 1..MaxChains

Min(a, b) == IF a < b THEN a ELSE b
Max(a, b) == IF a > b THEN a ELSE b

----------------------------------------------------------------------------
(* Strings *)

SystemReady == <<"S","y","s","t","e","m"," ","R","e","a","d","y">>
Paused == <<"P","a","u","s","e","d">>
StartingAI == <<"S","t","a","r","t","i","n","g"," ","A","I",".",".",".">>
ConnectionLost == <<"C","o","n","n","e","c","t","i","o","n"," ","L","o","s","t">>
Reconnecting == <<"R","e","c","o","n","n","e","c","t","i","n","g",".",".",".">>
PathClear == <<"P","a","t","h"," ","C","l","e","a","r">>
WarningMarker == <<"W","a","r","n","i","n","g">>
NetworkMarker == <<"N","e","t","w","o","r","k">>
FailedToFetchMarker == <<"F","a","i","l","e","d"," ","t","o"," ","f","e","t","c","h">>
AbortErrorName == <<"A","b","o","r","t","E","r","r","o","r">>
CommaSpace == <<",", " ">>
Ellipsis == <<".", ".", ".">>
DetectedSuffix == <<" ","d","e","t","e","c","t","e","d">>

\* String.prototype.includes
Includes(s, sub) ==
  \E i \in 0..(Len(s) - Len(sub)) :
    \A j \in 1..Len(sub) : s[i + j] = sub[j]

\* Array.prototype.join
RECURSIVE Join(_, _)
Join(parts, sep) ==
  IF Len(parts) = 0 THEN <<>>
  ELSE IF Len(parts) = 1 THEN parts[1]
  ELSE parts[1] \o sep \o Join(Tail(parts), sep)

\* Array.from(new Set(xs)): distinct elements in order of first appearance
UniqueInOrderKeepAll(xs) == xs
RECURSIVE UniqueInOrder(_)
UniqueInOrder(xs) ==
  IF Len(xs) = 0 THEN <<>>
  ELSE LET init == UniqueInOrder(SubSeq(xs, 1, Len(xs) - 1))
           last == xs[Len(xs)]
       IN IF \E i \in 1..Len(init) : init[i] = last THEN init ELSE Append(init, last)

\* Array.prototype.slice(0, n)
Slice0(xs, n) == SubSeq(xs, 1, Min(n, Len(xs)))

----------------------------------------------------------------------------
(* Data: detections, server responses and errors *)

Chair == <<"c","h","a","i","r">>
Table == <<"t","a","b","l","e">>
WarningAlert == <<"W","a","r","n","i","n","g",":"," ","c","a","r">>

Box(x1, y1, x2, y2) == [x1 |-> x1, y1 |-> y1, x2 |-> x2, y2 |-> y2]

Det(class, conf, bbox) ==
  [class |-> class, confidence |-> conf, position |-> "center",
   distance |-> "near", isPriority |-> FALSE, bbox |-> bbox]

\* A ServerResponse after response.json(); an absent field is the empty
\* sequence or 0, both falsy in the code's tests.
Resp(alert, objects, dets, w, h) ==
  [alert |-> alert, objects |-> objects, detections |-> dets,
   frameWidth |-> w, frameHeight |-> h]

EmptyResponse == Resp(<<>>, <<>>, <<>>, 0, 0)
AlertResponse == Resp(WarningAlert, <<Chair>>, <<Det(Chair, 9, Box(1, 1, 2, 2))>>, 640, 480)
ObjectsResponse ==
  Resp(<<>>, <<Chair, Chair, Table>>, <<Det(Chair, 5, Box(1, 1, 2, 2))>>, 640, 480)

Responses == {EmptyResponse, AlertResponse, ObjectsResponse}

Err(name, message) == [name |-> name, message |-> message]

\* fetch() rejection of React Native when the transfer fails
NetworkError ==
  Err(<<"T","y","p","e","E","r","r","o","r">>,
      <<"N","e","t","w","o","r","k"," ","r","e","q","u","e","s","t"," ","f","a","i","l","e","d">>)
\* fetch() rejection after controller.abort()
AbortError == Err(AbortErrorName, <<"A","b","o","r","t","e","d">>)
\* new Error(`Server error: ${response.status}`)
HttpError(status) ==
  Err(<<"E","r","r","o","r">>,
      <<"S","e","r","v","e","r"," ","e","r","r","o","r",":"," ">> \o status)
\* response.json() rejection on a malformed body
DecodeError ==
  Err(<<"S","y","n","t","a","x","E","r","r","o","r">>,
      <<"J","S","O","N"," ","P","a","r","s","e"," ","e","r","r","o","r">>)
\* takePictureAsync() rejection
CaptureError ==
  Err(<<"E","r","r","o","r">>,
      <<"C","a","m","e","r","a"," ","i","s"," ","n","o","t"," ","r","e","a","d","y">>)

HttpStatuses == { <<"5","0","0">>, <<"4","0","4">> }

SeqsUpTo(X, n) == UNION {[1..k -> X] : k \in 0..n}

\* Detections that differ from one another in one field of the comparison
\* or only in the fields the comparison ignores
BaseDet == Det(Chair, 5, Box(1, 1, 2, 2))
DetInputs ==
  { BaseDet,
    [BaseDet EXCEPT !.class = Table],
    [BaseDet EXCEPT !.bbox.x1 = 0],
    [BaseDet EXCEPT !.bbox.y1 = 0],
    [BaseDet EXCEPT !.bbox.x2 = 3],
    [BaseDet EXCEPT !.bbox.y2 = 3],
    [BaseDet EXCEPT !.confidence = 9],
    [BaseDet EXCEPT !.position = "left", !.distance = "far", !.isPriority = TRUE] }
DetSeqInputs == SeqsUpTo(DetInputs, MaxDets)

\* Responses for the alert derivation: every objects list over five names,
\* without an alert and with one of two alerts
StopAlert == <<"S","t","o","p">>
ObjectNames == { <<"a">>, <<"b">>, <<"c">>, Chair, Table }
AlertInputs ==
  { Resp(alert, objects, <<>>, 0, 0) :
      alert \in {<<>>, WarningAlert, StopAlert},
      objects \in SeqsUpTo(ObjectNames, MaxObjects) }

----------------------------------------------------------------------------
(* The program state as one record, so that handlers compose *)

S ==
  [mountedRef |-> mountedRef, cameraRef |-> cameraRef, runningRef |-> runningRef,
   processingRef |-> processingRef, retryCountRef |-> retryCountRef,
   frameLoopTimeoutRef |-> frameLoopTimeoutRef, lastAlertTextRef |-> lastAlertTextRef,
   sinceSpeech |-> sinceSpeech, hasStartedRef |-> hasStartedRef,
   isRunning |-> isRunning, alertText |-> alertText,
   connectionStatus |-> connectionStatus, detections |-> detections,
   serverW |-> serverW, serverH |-> serverH, chains |-> chains,
   sinceFailure |-> sinceFailure, terminalNotes |-> terminalNotes,
   haltedByLimit |-> haltedByLimit, elapsed |-> elapsed, sent |-> sent,
   mutedSinceSpeech |-> mutedSinceSpeech, arg |-> arg, fx |-> fx, op |-> op]

Commit(s) ==
  /\ mountedRef' = s.mountedRef
  /\ cameraRef' = s.cameraRef
  /\ runningRef' = s.runningRef
  /\ processingRef' = s.processingRef
  /\ retryCountRef' = s.retryCountRef
  /\ frameLoopTimeoutRef' = s.frameLoopTimeoutRef
  /\ lastAlertTextRef' = s.lastAlertTextRef
  /\ sinceSpeech' = s.sinceSpeech
  /\ hasStartedRef' = s.hasStartedRef
  /\ isRunning' = s.isRunning
  /\ alertText' = s.alertText
  /\ connectionStatus' = s.connectionStatus
  /\ detections' = s.detections
  /\ serverW' = s.serverW
  /\ serverH' = s.serverH
  /\ chains' = s.chains
  /\ sinceFailure' = s.sinceFailure
  /\ terminalNotes' = s.terminalNotes
  /\ haltedByLimit' = s.haltedByLimit
  /\ elapsed' = s.elapsed
  /\ sent' = s.sent
  /\ mutedSinceSpeech' = s.mutedSinceSpeech
  /\ arg' = s.arg
  /\ fx' = s.fx
  /\ op' = s.op

\* The state at the start of a step: no side effect issued yet
NoArg == <<>>
Begin(name, c) == [S EXCEPT !.fx = {}, !.op = <<name, c>>, !.arg = NoArg]

WithArg(s, x) == [s EXCEPT !.arg = x]

Effect(s, e) == [s EXCEPT !.fx = @ \cup {e}]

NoChain == [pc |-> "none", rem |-> 0]
\* The chain moves to its next suspension point; the clock of the iteration
\* starts with the capture, the clock of the request with the fetch
SetChain(s, c, pc, rem) ==
  [s EXCEPT !.chains[c] = [pc |-> pc, rem |-> rem],
            !.elapsed[c] = IF pc \in {"none", "capture"} THEN 0 ELSE @,
            !.sent[c] = IF pc = "json" THEN @ ELSE 0]

----------------------------------------------------------------------------
(* Helpers of the component *)

\* The comparison inside updateDetections: same length and pairwise equal
\* class and bbox corners
SameDetectionsNoY2(prev, next) ==
  /\ Len(prev) = Len(next)
  /\ \A i \in 1..Len(prev) :
       /\ prev[i].class = next[i].class
       /\ prev[i].bbox.x1 = next[i].bbox.x1
       /\ prev[i].bbox.y1 = next[i].bbox.y1
       /\ prev[i].bbox.x2 = next[i].bbox.x2
SameDetections(prev, next) ==
  /\ Len(prev) = Len(next)
  /\ \A i \in 1..Len(prev) :
       /\ prev[i].class = next[i].class
       /\ prev[i].bbox.x1 = next[i].bbox.x1
       /\ prev[i].bbox.y1 = next[i].bbox.y1
       /\ prev[i].bbox.x2 = next[i].bbox.x2
       /\ prev[i].bbox.y2 = next[i].bbox.y2

updateDetections(s, next) ==
  [s EXCEPT !.detections = IF SameDetections(@, next) THEN @ ELSE next]

speakAlertNoCooldown(s, text) ==
  Effect(Effect([s EXCEPT !.sinceSpeech = 0, !.mutedSinceSpeech = FALSE],
                "speechStop"), "speak")
speakAlert(s, text) ==
  IF s.sinceSpeech < SPEECH_COOLDOWN THEN [s EXCEPT !.mutedSinceSpeech = TRUE]
  ELSE Effect(Effect([s EXCEPT !.sinceSpeech = 0, !.mutedSinceSpeech = FALSE],
                     "speechStop"), "speak")

\* The alert text handleAlerts derives from a response
NextAlertObjectsFirst(data) ==
  IF Len(data.objects) > 0
    THEN LET uniqueObjects == UniqueInOrder(data.objects)
         IN Join(Slice0(uniqueObjects, 2), CommaSpace)
              \o (IF Len(uniqueObjects) > 2 THEN Ellipsis ELSE <<>>)
              \o DetectedSuffix
  ELSE IF Len(data.alert) > 0 THEN data.alert
  ELSE PathClear
NextAlert(data) ==
  IF Len(data.alert) > 0 THEN data.alert
  ELSE IF Len(data.objects) > 0
    THEN LET uniqueObjects == UniqueInOrder(data.objects)
         IN Join(Slice0(uniqueObjects, 2), CommaSpace)
              \o (IF Len(uniqueObjects) > 2 THEN Ellipsis ELSE <<>>)
              \o DetectedSuffix
    ELSE PathClear

handleAlertsVibrateOnChange(s, data) ==
  LET nextAlert == NextAlert(data)
      s1 == IF nextAlert # s.lastAlertTextRef
              THEN LET s0 == [s EXCEPT !.alertText = nextAlert,
                                       !.lastAlertTextRef = nextAlert]
                   IN IF Includes(nextAlert, WarningMarker)
                        THEN Effect(s0, "vibrate") ELSE s0
              ELSE s
  IN IF Len(data.alert) > 0 THEN speakAlert(s1, data.alert) ELSE s1
handleAlerts(s, data) ==
  LET nextAlert == NextAlert(data)
      s1 == IF nextAlert # s.lastAlertTextRef
              THEN Effect([s EXCEPT !.alertText = nextAlert,
                                    !.lastAlertTextRef = nextAlert], "setAlertText")
              ELSE s
      s2 == IF Includes(nextAlert, WarningMarker) THEN Effect(s1, "vibrate") ELSE s1
  IN IF Len(data.alert) > 0 THEN speakAlert(s2, data.alert) ELSE s2

\* clearTimeout(frameLoopTimeoutRef.current): a timer that already fired or
\* was cleared is left alone
ClearLoopTimeout(s) ==
  LET id == s.frameLoopTimeoutRef
  IN IF id # 0 /\ s.chains[id].pc = "timer"
       THEN Effect(SetChain(s, id, "none", 0), "clearTimer")
       ELSE s

stopDetectionKeepLast(s) ==
  LET s1 == Effect([s EXCEPT !.runningRef = FALSE, !.isRunning = FALSE], "speechStop")
      s2 == IF s1.frameLoopTimeoutRef # 0
              THEN [ClearLoopTimeout(s1) EXCEPT !.frameLoopTimeoutRef = 0]
              ELSE s1
  IN [s2 EXCEPT !.alertText = Paused]
stopDetection(s) ==
  LET s1 == Effect([s EXCEPT !.runningRef = FALSE, !.isRunning = FALSE], "speechStop")
      s2 == IF s1.frameLoopTimeoutRef # 0
              THEN [ClearLoopTimeout(s1) EXCEPT !.frameLoopTimeoutRef = 0]
              ELSE s1
  IN [s2 EXCEPT !.alertText = Paused, !.lastAlertTextRef = Paused]

\* The guard at the top of captureAndSendFrame: the iteration goes on
CanCaptureNoProcessingCheck(s) == s.cameraRef /\ s.mountedRef
CanCapture(s) == s.cameraRef /\ ~s.processingRef /\ s.mountedRef

\* The checks of mountedRef after each await of captureAndSendFrame
MountedAfterCapture(s) == s.mountedRef
MountedAfterJsonAlways(s) == TRUE
MountedAfterJson(s) == s.mountedRef
MountedInCatch(s) == s.mountedRef

\* The classification in the catch block
IsNetworkErrorAlways(err) == TRUE
IsNetworkError(err) ==
  \/ Includes(err.message, NetworkMarker)
  \/ Includes(err.message, FailedToFetchMarker)
  \/ err.name = AbortErrorName

\* The retry limit test of the catch block
RetryLimitReachedLate(s) == s.retryCountRef > MAX_RETRY_ATTEMPTS
RetryLimitReachedTwoLate(s) == s.retryCountRef >= MAX_RETRY_ATTEMPTS + 2
RetryLimitReached(s) == s.retryCountRef >= MAX_RETRY_ATTEMPTS

\* frameDelay of startRealtimeLoop
FrameDelay == 1000 \div FRAME_RATE

\* The tail of loop() after `await captureAndSendFrame()`
Reschedule(s, c) ==
  IF s.runningRef /\ s.mountedRef
    THEN [SetChain(s, c, "timer", FrameDelay) EXCEPT !.frameLoopTimeoutRef = c]
    ELSE SetChain(s, c, "none", 0)

\* The finally block of captureAndSendFrame, then the tail of loop()
FinishKeepFlag(s, c) == Reschedule(s, c)
Finish(s, c) == Reschedule([s EXCEPT !.processingRef = FALSE], c)

\* loop() up to its first suspension
Loop(s, c) ==
  IF ~s.runningRef \/ ~s.mountedRef THEN SetChain(s, c, "none", 0)
  ELSE IF ~CanCapture(s) THEN Reschedule([s EXCEPT !.elapsed[c] = 0], c)
  ELSE SetChain(Effect([s EXCEPT !.processingRef = TRUE], "capture"), c, "capture", 0)

\* The slot of the loop() invocation begun by startRealtimeLoop
FreeChain(s) == CHOOSE c \in ChainIds : s.chains[c].pc = "none" /\
                  \A d \in ChainIds : s.chains[d].pc = "none" => c <= d
HasFreeChain(s) == \E c \in ChainIds : s.chains[c].pc = "none"

startDetectionNoGuard(s) ==
  IF ~HasFreeChain(s) THEN s
  ELSE Loop([s EXCEPT !.runningRef = TRUE, !.retryCountRef = 0, !.isRunning = TRUE,
                      !.connectionStatus = "connecting", !.alertText = StartingAI,
                      !.lastAlertTextRef = StartingAI,
                      !.terminalNotes = 0, !.haltedByLimit = FALSE],
            FreeChain(s))
startDetectionKeepCount(s) ==
  IF s.runningRef THEN s
  ELSE Loop([s EXCEPT !.runningRef = TRUE, !.isRunning = TRUE,
                      !.connectionStatus = "connecting", !.alertText = StartingAI,
                      !.lastAlertTextRef = StartingAI,
                      !.terminalNotes = 0, !.haltedByLimit = FALSE],
            FreeChain(s))
startDetection(s) ==
  IF s.runningRef THEN s
  ELSE Loop([s EXCEPT !.runningRef = TRUE, !.retryCountRef = 0, !.isRunning = TRUE,
                      !.connectionStatus = "connecting", !.alertText = StartingAI,
                      !.lastAlertTextRef = StartingAI,
                      !.terminalNotes = 0, !.haltedByLimit = FALSE],
            FreeChain(s))

\* await new Promise(resolve => setTimeout(resolve, CONFIG.RECONNECT_DELAY))
BackoffWaitSkipped(s, c) == Finish(s, c)
BackoffWait(s, c) == SetChain(s, c, "backoff", RECONNECT_DELAY)

\* The success path of captureAndSendFrame after response.json()
OnSuccessKeepCount(s, data) ==
  handleAlerts(
    [updateDetections(s, data.detections)
       EXCEPT !.serverW = IF data.frameWidth # 0 THEN data.frameWidth ELSE 1,
              !.serverH = IF data.frameHeight # 0 THEN data.frameHeight ELSE 1,
              !.connectionStatus = "connected"],
    data)
OnSuccess(s, data) ==
  handleAlerts(
    [updateDetections(s, data.detections)
       EXCEPT !.serverW = IF data.frameWidth # 0 THEN data.frameWidth ELSE 1,
              !.serverH = IF data.frameHeight # 0 THEN data.frameHeight ELSE 1,
              !.connectionStatus = "connected",
              !.retryCountRef = 0],
    data)

\* The catch block of captureAndSendFrame, the finally block and the tail of
\* loop(); on a counted failure below the limit the chain suspends on the
\* reconnect delay with processingRef still set
OnError(s, c, err) ==
  IF ~MountedInCatch(s) THEN Finish(s, c)
  ELSE IF IsNetworkError(err)
    THEN LET s1 == [s EXCEPT !.connectionStatus = "error",
                             !.retryCountRef = @ + 1]
         IN IF RetryLimitReached(s1)
              THEN LET s2 == [s1 EXCEPT !.alertText = ConnectionLost,
                                        !.lastAlertTextRef = ConnectionLost]
                       s3 == Effect(stopDetection(s2), "notify")
                   IN Finish([s3 EXCEPT !.terminalNotes = Min(2, @ + 1),
                                        !.haltedByLimit = TRUE], c)
              ELSE LET s2 == IF s1.lastAlertTextRef # Reconnecting
                               THEN [s1 EXCEPT !.alertText = Reconnecting,
                                               !.lastAlertTextRef = Reconnecting]
                               ELSE s1
                   IN BackoffWait([s2 EXCEPT !.sinceFailure = 0], c)
    ELSE Finish(s, c)

----------------------------------------------------------------------------
(* Initial state: the component is mounted with the camera view rendered *)

Init ==
  /\ mountedRef = TRUE
  /\ cameraRef = TRUE
  /\ runningRef = FALSE
  /\ processingRef = FALSE
  /\ retryCountRef = 0
  /\ frameLoopTimeoutRef = 0
  /\ lastAlertTextRef = SystemReady
  /\ sinceSpeech = SPEECH_COOLDOWN
  /\ hasStartedRef = FALSE
  /\ isRunning = FALSE
  /\ alertText = SystemReady
  /\ connectionStatus = "connecting"
  /\ detections = <<>>
  /\ serverW = 1
  /\ serverH = 1
  /\ chains = [c \in ChainIds |-> NoChain]
  /\ sinceFailure = RECONNECT_DELAY
  /\ terminalNotes = 0
  /\ haltedByLimit = FALSE
  /\ elapsed = [c \in ChainIds |-> 0]
  /\ sent = [c \in ChainIds |-> 0]
  /\ mutedSinceSpeech = FALSE
  /\ arg = NoArg
  /\ fx = {}
  /\ op = <<"Init", 0>>

----------------------------------------------------------------------------
(* Actions: one per handler run *)

\* toggleDetection, the press handler of the start/pause button; the button
\* is part of the rendered view, so no press arrives after unmount
Toggle ==
  /\ mountedRef
  /\ isRunning \/ HasFreeChain(S)
  /\ Commit(IF isRunning THEN stopDetection(Begin("Toggle", 0))
                         ELSE startDetection(Begin("Toggle", 0)))

\* onCameraReady and the effect that starts detection once
CameraReady ==
  /\ mountedRef
  /\ ~hasStartedRef
  /\ runningRef \/ HasFreeChain(S)
  /\ Commit(startDetection([Begin("CameraReady", 0) EXCEPT !.hasStartedRef = TRUE]))

\* The cleanup of the mount effect
Teardown ==
  /\ mountedRef
  /\ Commit(Effect(ClearLoopTimeout([Begin("Teardown", 0) EXCEPT !.mountedRef = FALSE,
                                                               !.runningRef = FALSE,
                                                               !.cameraRef = FALSE]),
                   "speechStop"))

\* The iteration timer of chain c fires: loop() runs
TimerFire(c) ==
  /\ chains[c].pc = "timer"
  /\ chains[c].rem = 0
  /\ Commit(Loop(Begin("TimerFire", c), c))

\* takePictureAsync resolves: the frame is sent
CaptureResolve(c) ==
  /\ chains[c].pc = "capture"
  /\ Commit(IF ~MountedAfterCapture(S) THEN Finish(Begin("CaptureResolve", c), c)
            ELSE SetChain(Effect(Begin("CaptureResolve", c), "send"),
                          c, "fetch", REQUEST_TIMEOUT))

\* takePictureAsync rejects
CaptureReject(c) ==
  /\ chains[c].pc = "capture"
  /\ Commit(OnError(Begin("CaptureReject", c), c, CaptureError))

\* fetch resolves with a 2xx response: the timeout is cleared, json() awaited
FetchResolveOk(c) ==
  /\ chains[c].pc = "fetch"
  /\ Commit(SetChain(Begin("FetchResolveOk", c), c, "json", 0))

\* fetch resolves with a non-2xx response: throw new Error(`Server error: ...`)
FetchResolveNotOk(c) ==
  /\ chains[c].pc = "fetch"
  /\ \E status \in HttpStatuses :
       Commit(OnError(Begin("FetchResolveNotOk", c), c, HttpError(status)))

\* fetch rejects because the transfer failed
FetchReject(c) ==
  /\ chains[c].pc = "fetch"
  /\ Commit(OnError(Begin("FetchReject", c), c, NetworkError))

\* The request timeout fires: controller.abort() rejects the fetch
FetchTimeout(c) ==
  /\ chains[c].pc = "fetch"
  /\ chains[c].rem = 0
  /\ Commit(OnError(Effect(Begin("FetchTimeout", c), "abort"), c, AbortError))

\* response.json() resolves with the decoded body
JsonResolve(c) ==
  /\ chains[c].pc = "json"
  /\ \E data \in Responses :
       Commit(IF ~MountedAfterJson(S) THEN Finish(WithArg(Begin("JsonResolve", c), data), c)
              ELSE Finish(OnSuccess(WithArg(Begin("JsonResolve", c), data), data), c))

\* response.json() rejects on a malformed body
JsonReject(c) ==
  /\ chains[c].pc = "json"
  /\ Commit(OnError(Begin("JsonReject", c), c, DecodeError))

\* The reconnect delay is over: finally block and tail of loop()
BackoffDone(c) ==
  /\ chains[c].pc = "backoff"
  /\ chains[c].rem = 0
  /\ Commit(Finish(Begin("BackoffDone", c), c))

\* TickMs milliseconds pass
\* The clocks that Tick advances
Busy(c) == chains[c].pc \in {"capture", "fetch", "json", "backoff"}
Sending(c) == chains[c].pc \in {"fetch", "json"}
SentCap == REQUEST_TIMEOUT + TickMs

\* A request timeout that is due fires (or the fetch settles) before more
\* time passes
Tick ==
  /\ \/ \E c \in ChainIds : chains[c].rem > 0
     \/ \E c \in ChainIds : Busy(c) /\ elapsed[c] < FrameDelay
     \/ \E c \in ChainIds : Sending(c) /\ sent[c] < SentCap
     \/ sinceSpeech < SPEECH_COOLDOWN
     \/ sinceFailure < RECONNECT_DELAY
  /\ ~\E c \in ChainIds : chains[c].pc = "fetch" /\ chains[c].rem = 0
  /\ Commit([Begin("Tick", 0) EXCEPT
       !.chains = [c \in ChainIds |-> [@[c] EXCEPT !.rem = Max(0, @ - TickMs)]],
       !.elapsed = [c \in ChainIds |->
                      IF Busy(c) THEN Min(FrameDelay, @[c] + TickMs) ELSE @[c]],
       !.sent = [c \in ChainIds |->
                   IF Sending(c) THEN Min(SentCap, @[c] + TickMs) ELSE @[c]],
       !.sinceSpeech = Min(SPEECH_COOLDOWN, @ + TickMs),
       !.sinceFailure = Min(RECONNECT_DELAY, @ + TickMs)])

Next ==
  \/ Toggle
  \/ CameraReady
  \/ Teardown
  \/ Tick
  \/ \E c \in ChainIds : TimerFire(c)
  \/ \E c \in ChainIds : CaptureResolve(c)
  \/ \E c \in ChainIds : CaptureReject(c)
  \/ \E c \in ChainIds : FetchResolveOk(c)
  \/ \E c \in ChainIds : FetchResolveNotOk(c)
  \/ \E c \in ChainIds : FetchReject(c)
  \/ \E c \in ChainIds : FetchTimeout(c)
  \/ \E c \in ChainIds : JsonResolve(c)
  \/ \E c \in ChainIds : JsonReject(c)
  \/ \E c \in ChainIds : BackoffDone(c)

Spec == Init /\ [][Next]_vars

----------------------------------------------------------------------------
(* The helpers applied to bounded inputs *)

\* updateDetections applied to the stored detections and a new sequence
Reconcile ==
  \E next \in DetSeqInputs :
    Commit(updateDetections(WithArg(Begin("Reconcile", 0), next), next))

SpecReconcile == Init /\ [][Reconcile]_vars

\* handleAlerts applied to a response
DeriveAlert ==
  \E data \in AlertInputs :
    Commit(handleAlerts(WithArg(Begin("DeriveAlert", 0), data), data))

SpecAlerts == Init /\ [][DeriveAlert]_vars

TypeOK ==
  /\ retryCountRef \in 0..MAX_RETRY_ATTEMPTS
  /\ frameLoopTimeoutRef \in 0..MaxChains

----------------------------------------------------------------------------
(* Properties *)

InFlight == {c \in ChainIds : chains[c].pc \in {"capture", "fetch", "json"}}

Resolutions ==
  {"CaptureReject", "FetchResolveOk", "FetchResolveNotOk", "FetchReject",
   "FetchTimeout", "JsonResolve", "JsonReject"}

\* C1: at most one request (capture + network send) is in flight at any
\* time, and a step that starts a capture or a send leaves exactly one.
C1_AtMostOneInFlight ==
  /\ Cardinality(InFlight) <= 1
  /\ (fx \cap {"capture", "send"} # {}) => Cardinality(InFlight) = 1

\* An iteration of one chain began while the request of another chain was
\* still in flight, and it captured nothing
C1_Witness ==
  /\ op[1] = "TimerFire"
  /\ fx = {}
  /\ chains[op[2]].pc = "timer"
  /\ \E d \in InFlight : d # op[2]

\* C2: after stop() and until a later start() no frame capture and no
\* network send is initiated: a step that initiates one finds the
\* controller running.
C2_NoCaptureOrSendWhenStopped ==
  (fx \cap {"capture", "send"} # {}) => runningRef

\* C3: a request that resolves while the controller is not running is
\* discarded: detections, alertText, connectionStatus and
\* consecutiveFailures keep their values and no speech, vibration or user
\* notification is triggered.
C3_ResultDiscardedWhenStopped ==
  [][(~runningRef /\ op'[1] \in Resolutions) =>
       /\ detections' = detections
       /\ alertText' = alertText
       /\ connectionStatus' = connectionStatus
       /\ retryCountRef' = retryCountRef
       /\ fx' \cap {"speak", "vibrate", "notify"} = {}]_vars

\* C4: after teardown no capture or network send is initiated and no
\* published state (detections, alertText, connectionStatus, isRunning,
\* frame size) is updated, whatever resolves or fails afterward.
C4_NothingAfterTeardown ==
  [][~mountedRef =>
       /\ fx' \cap {"capture", "send"} = {}
       /\ detections' = detections
       /\ alertText' = alertText
       /\ connectionStatus' = connectionStatus
       /\ isRunning' = isRunning
       /\ serverW' = serverW
       /\ serverH' = serverH]_vars

\* A response body was decoded after teardown
C4_Witness == ~mountedRef /\ op[1] = "JsonResolve"

\* C5: when consecutiveFailures reaches maxRetryAttempts the loop is
\* stopped and exactly one terminal notification is issued for that run;
\* until the next start() no capture or send is initiated and no further
\* terminal notification is issued.
C5_StopsOnceAtRetryLimit ==
  /\ retryCountRef >= MAX_RETRY_ATTEMPTS => (~runningRef /\ haltedByLimit)
  /\ haltedByLimit => (~runningRef /\ terminalNotes = 1 /\ fx \cap {"capture", "send"} = {})
  /\ "notify" \in fx => (haltedByLimit /\ retryCountRef >= MAX_RETRY_ATTEMPTS)
  /\ terminalNotes <= 1

\* The step that handled the failure which reached the limit
C5_Witness == "notify" \in fx /\ retryCountRef = MAX_RETRY_ATTEMPTS /\ ~runningRef

\* C6: after the retry limit stopped the loop the published alertText is
\* "Connection Lost" until the next start().
C6_ConnectionLostShown == haltedByLimit => alertText = ConnectionLost

\* C7: a non-2xx HTTP response is a counted retryable failure:
\* consecutiveFailures increases by 1, connectionStatus becomes Error and
\* the controller backs off or, at the limit, stops.
C7_HttpErrorCounted ==
  [][(mountedRef /\ op'[1] = "FetchResolveNotOk") =>
       /\ retryCountRef' = retryCountRef + 1
       /\ connectionStatus' = "error"
       /\ (chains'[op'[2]].pc = "backoff" \/ haltedByLimit')]_vars

\* C8: a CaptureError or a DecodeError skips the iteration:
\* consecutiveFailures, connectionStatus, alertText and detections are
\* unchanged, there is no reconnect backoff, the in-flight flag is cleared
\* and a running loop schedules its next iteration.
C8_SkipOnCaptureOrDecodeError ==
  [][(op'[1] \in {"CaptureReject", "JsonReject"}) =>
       /\ retryCountRef' = retryCountRef
       /\ connectionStatus' = connectionStatus
       /\ alertText' = alertText
       /\ detections' = detections
       /\ sinceFailure' = sinceFailure
       /\ chains'[op'[2]].pc # "backoff"
       /\ ~processingRef'
       /\ (runningRef /\ mountedRef) =>
            chains'[op'[2]] = [pc |-> "timer", rem |-> FrameDelay]]_vars

\* A malformed body was skipped while earlier failures were counted, and
\* the next iteration is scheduled
C8_Witness ==
  /\ op[1] = "JsonReject"
  /\ retryCountRef > 0
  /\ connectionStatus = "error"
  /\ chains[op[2]].pc = "timer"

\* C9: every handled successful response sets consecutiveFailures to 0 and
\* connectionStatus to Connected, and the loop halts on its own (not by
\* stop() or teardown) only in a step that leaves consecutiveFailures at
\* maxRetryAttempts or more.
C9_SuccessResetsAndOnlyLimitHalts ==
  [][/\ (mountedRef /\ op'[1] = "JsonResolve") =>
          (retryCountRef' = 0 /\ connectionStatus' = "connected")
     /\ (runningRef /\ ~runningRef' /\ op'[1] \notin {"Toggle", "Teardown"}) =>
          retryCountRef' >= MAX_RETRY_ATTEMPTS]_vars

\* A decoded response was handled while running: the count is 0, the
\* status Connected, and the loop has set its next iteration timer
C9_Witness ==
  /\ op[1] = "JsonResolve"
  /\ runningRef
  /\ retryCountRef = 0
  /\ connectionStatus = "connected"
  /\ lastAlertTextRef = PathClear
  /\ chains[op[2]].pc = "timer"

\* C10: after a counted failure below the limit no capture and no send is
\* initiated before reconnectDelayMs has elapsed since the failure was
\* handled, and the step that handled it leaves the reconnecting
\* indicator as the published alertText.
C10_BackoffBeforeNextAttempt ==
  /\ (fx \cap {"capture", "send"} # {}) => sinceFailure >= RECONNECT_DELAY
  /\ (op[1] \in Resolutions /\ chains[op[2]].pc = "backoff") =>
       (alertText = Reconnecting /\ lastAlertTextRef = Reconnecting)

\* The first capture after a counted failure, the status still Error
C10_Witness ==
  /\ "capture" \in fx
  /\ connectionStatus = "error"
  /\ retryCountRef > 0

\* The steps that end an iteration without a counted failure, and the
\* step of an iteration that was skipped
UncountedEnds == {"JsonResolve", "JsonReject", "CaptureReject", "TimerFire"}

\* C11: after an iteration that completes without a counted failure the
\* next iteration is scheduled after max(0, frameInterval - elapsed).
C11_AdaptivePacing ==
  (op[1] \in UncountedEnds /\ chains[op[2]].pc = "timer") =>
    chains[op[2]].rem = Max(0, FrameDelay - elapsed[op[2]])

\* C12: every network send completes or fails no later than
\* requestTimeoutMs after it was issued, in whichever phase it is stalled
\* (waiting for the response or reading and decoding its body).
C12_RequestDeadline ==
  \A c \in ChainIds : Sending(c) => sent[c] <= REQUEST_TIMEOUT

\* The explicit alert of a handled response
HandledAlert(name, mounted, data) ==
  mounted /\ name = "JsonResolve" /\ Len(data.alert) > 0

\* C16 (as stated): speech fires only for an explicit alert and only when
\* speechCooldownMs has elapsed since the last utterance, it records the
\* time and stops the playing utterance; and two explicit-alert responses
\* within the cooldown of each other produce exactly one utterance, so an
\* alert that is refused is never preceded by another refused alert since
\* the last utterance.
C16_ExactlyOneUtterance ==
  [][/\ "speak" \in fx' =>
          /\ HandledAlert(op'[1], mountedRef, arg')
          /\ sinceSpeech >= SPEECH_COOLDOWN
          /\ sinceSpeech' = 0
          /\ "speechStop" \in fx'
     /\ (HandledAlert(op'[1], mountedRef, arg') /\ "speak" \notin fx') =>
          ~mutedSinceSpeech]_vars

\* C16 (amended): speech fires for a handled explicit alert exactly when
\* speechCooldownMs has elapsed since the last utterance, and for nothing
\* else; it records the time and stops the playing utterance.  So two
\* utterances are at least speechCooldownMs apart and two explicit-alert
\* responses within the cooldown of each other produce at most one.
C16_SpeechCooldown ==
  [][/\ "speak" \in fx' =>
          /\ HandledAlert(op'[1], mountedRef, arg')
          /\ sinceSpeech >= SPEECH_COOLDOWN
          /\ sinceSpeech' = 0
          /\ "speechStop" \in fx'
     /\ HandledAlert(op'[1], mountedRef, arg') =>
          ("speak" \in fx' <=> sinceSpeech >= SPEECH_COOLDOWN)]_vars

\* An explicit alert handled within the cooldown of the last utterance
\* was not spoken
C16_Witness ==
  /\ HandledAlert(op[1], mountedRef, arg)
  /\ "speak" \notin fx
  /\ sinceSpeech < SPEECH_COOLDOWN
  /\ sinceSpeech > 0

\* C17: vibration fires in exactly the steps that handle a successful
\* response whose derived (and then published) alert text contains
\* "Warning", whatever the speech cooldown and the previous text.
C17_VibrationOnWarning ==
  [][("vibrate" \in fx') <=>
       (mountedRef /\ op'[1] = "JsonResolve" /\ Includes(alertText', WarningMarker))]_vars

\* A warning vibrated while the cooldown refused its speech
C17_Witness ==
  /\ "vibrate" \in fx
  /\ "speak" \notin fx
  /\ sinceSpeech < SPEECH_COOLDOWN

\* C18: start() on a running controller changes nothing and begins no
\* iteration chain.
C18_StartWhenRunningNoOp ==
  [][(runningRef /\ op'[1] = "CameraReady") =>
       /\ UNCHANGED <<runningRef, isRunning, retryCountRef, connectionStatus,
                      alertText, lastAlertTextRef, chains, frameLoopTimeoutRef,
                      processingRef, terminalNotes, haltedByLimit>>
       /\ fx' = {}]_vars

\* The start on camera-ready arrived while the loop, started by the
\* button, was running and had published a result
C18_Witness ==
  /\ op[1] = "CameraReady"
  /\ runningRef
  /\ connectionStatus = "connected"

\* C19: stop() on a controller that is not running is a no-op: the step
\* of the retry limit, which calls stop() after the user stopped, stops no
\* speech, cancels no timer and leaves the alertText that stop() found.
C19_StopWhenStoppedNoOp ==
  [][(~runningRef /\ "notify" \in fx') =>
       /\ fx' \cap {"speechStop", "clearTimer"} = {}
       /\ alertText' = ConnectionLost]_vars

\* C20: after teardown no timer callback fires.
C20_NoTimerAfterTeardown ==
  ~mountedRef => op[1] \notin {"TimerFire", "FetchTimeout", "BackoffDone"}

\* The fields the reconciler is said to compare, per position
KeyOf(d) == <<d.class, d.bbox.x1, d.bbox.y1, d.bbox.x2, d.bbox.y2>>
Keys(ds) == [i \in 1..Len(ds) |-> KeyOf(ds[i])]

\* C13: the reconciler keeps the previous sequence if and only if prev and
\* next have equal length and are pairwise equal on (class, x1, y1, x2,
\* y2), whatever their other fields; otherwise the stored detections
\* become next.
C13_ReconcileKeepsIffSameKeys ==
  [][op'[1] = "Reconcile" =>
       IF Keys(detections) = Keys(arg')
         THEN detections' = detections
         ELSE detections' = arg']_vars

\* A non-empty sequence that differs from the stored one only in ignored
\* fields was offered, and the stored one was kept
C13_Witness ==
  /\ op[1] = "Reconcile"
  /\ Len(arg) > 0
  /\ Keys(detections) = Keys(arg)
  /\ detections # arg

\* C14: an explicit alert string is the derived text verbatim, whatever
\* objects the response carries; without an alert and without objects the
\* text is exactly "Path Clear".
C14_AlertPrecedence ==
  op[1] = "DeriveAlert" =>
    /\ Len(arg.alert) > 0 => alertText = arg.alert
    /\ (Len(arg.alert) = 0 /\ Len(arg.objects) = 0) => alertText = PathClear

\* A response with both an alert and objects published the alert
C14_Witness ==
  /\ op[1] = "DeriveAlert"
  /\ arg.alert = StopAlert
  /\ Len(arg.objects) > 0
  /\ alertText = StopAlert

\* The distinct names of a list in order of first appearance
FirstAppearances(xs) ==
  LET F[i \in 0..Len(xs)] ==
        IF i = 0 THEN <<>>
        ELSE IF \E j \in 1..(i - 1) : xs[j] = xs[i] THEN F[i - 1]
        ELSE Append(F[i - 1], xs[i])
  IN F[Len(xs)]

\* U+2026 HORIZONTAL ELLIPSIS, one character
EllipsisChar == "U+2026"
TruncatedSuffixClaimed == <<EllipsisChar, "d","e","t","e","c","t","e","d">>
TruncatedSuffix == <<".", ".", ".", " ","d","e","t","e","c","t","e","d">>

ObjectsText(objects, truncated) ==
  LET names == FirstAppearances(objects)
  IN IF Len(names) = 1 THEN names[1] \o DetectedSuffix
     ELSE IF Len(names) = 2 THEN names[1] \o CommaSpace \o names[2] \o DetectedSuffix
     ELSE names[1] \o CommaSpace \o names[2] \o truncated

ObjectsOnly(name, data) ==
  name = "DeriveAlert" /\ Len(data.alert) = 0 /\ Len(data.objects) > 0

LiveChains == {c \in ChainIds : chains[c].pc # "none"}

\* C21: there is a single stream of control: at most one loop chain is
\* live in every reachable state.
C21_SingleChain == Cardinality(LiveChains) <= 1

\* C22: no failure escapes an iteration: processingRef is set exactly
\* while a chain is between the guard and the finally block of
\* captureAndSendFrame, and the step in which a chain leaves that region,
\* whatever the outcome, clears it and sets the iteration timer of a
\* running loop.
C22_IterationAlwaysReturns ==
  [][/\ processingRef' <=> (\E c \in ChainIds : Busy(c)')
     /\ \A c \in ChainIds :
          (Busy(c) /\ ~Busy(c)') =>
            /\ ~processingRef'
            /\ chains'[c].pc = IF runningRef' /\ mountedRef' THEN "timer" ELSE "none"]_vars

\* The reconnect wait after a counted failure ended, the flag is cleared
\* and the next iteration is scheduled
C22_Witness ==
  /\ op[1] = "BackoffDone"
  /\ ~processingRef
  /\ runningRef
  /\ chains[op[2]].pc = "timer"

\* C23: before teardown connectionStatus is Error if and only if
\* consecutiveFailures is greater than 0.
C23_ErrorIffFailures ==
  mountedRef => (connectionStatus = "error" <=> retryCountRef > 0)

\* A second consecutive counted failure was handled
C23_Witness ==
  /\ mountedRef
  /\ op[1] \in {"FetchReject", "FetchTimeout"}
  /\ connectionStatus = "error"
  /\ retryCountRef = 2

\* C24: 0 <= consecutiveFailures <= maxRetryAttempts in every reachable
\* state.
C24_RetryCountInRange ==
  retryCountRef >= 0 /\ retryCountRef <= MAX_RETRY_ATTEMPTS

\* A request sent before stopDetection() failed after it and was counted,
\* one short of the limit
C24_Witness ==
  /\ op[1] \in {"FetchReject", "FetchTimeout"}
  /\ ~runningRef
  /\ ~haltedByLimit
  /\ retryCountRef = MAX_RETRY_ATTEMPTS - 1
  /\ chains[op[2]].pc = "backoff"

\* C25: lastAlertTextRef equals the published alertText after every step,
\* and handling a successful response sets them exactly when the derived
\* text differs from lastAlertTextRef.
C25_LastAlertTextTracksPublished ==
  [][/\ lastAlertTextRef' = alertText'
     /\ (mountedRef /\ op'[1] = "JsonResolve") =>
          /\ "setAlertText" \in fx' <=> alertText' # lastAlertTextRef
          /\ "setAlertText" \notin fx' => UNCHANGED <<alertText, lastAlertTextRef>>]_vars

\* A response whose derived text is the text already shown was handled
\* and nothing was set
C25_Witness ==
  /\ mountedRef
  /\ op[1] = "JsonResolve"
  /\ arg = EmptyResponse
  /\ "setAlertText" \notin fx
  /\ alertText = PathClear

====
